---- MODULE Spec2Model ----
(***************************************************************************)
(* A model of app.py: the generator of 2x2 integer linear systems          *)
(* (generate_equation_system, lines 7-51) and the Streamlit script around  *)
(* it (lines 63-131), which is re-executed from the top on every user      *)
(* interaction and keeps problem, result, user_x and user_y in             *)
(* st.session_state.                                                       *)
(*                                                                         *)
(* The generator is modelled statement by statement: its two repair loops  *)
(* (lines 18 and 19) have a loop-head state and a loop-body state each, so *)
(* that an execution that keeps redrawing 0 is a behaviour of the model.   *)
(* random.randint(lo, hi) is a nondeterministic choice; the model draws    *)
(* from a sample of lo..hi (RandInt): both ends and zero.                  *)
(*                                                                         *)
(* GenSpec is the generator alone, called again and again. Spec is the     *)
(* session: each of its actions is one stretch of the script executed      *)
(* without interruption, and a call of the generator inside such a stretch *)
(* yields any member of GenReturns, the values GenSpec can return          *)
(* (ReturnsSummarised, an invariant of GenSpec, says that GenReturns       *)
(* holds them all; GenSpec reaches as many return values as GenReturns     *)
(* has members).                                                           *)
(***************************************************************************)
EXTENDS Integers, Sequences, FiniteSets

\* ---------------------------------------------------------------- bounds

\* The retry cap of line 12 (max_iter = 100), scaled down: the model makes
\* at most max_iter attempts per call.
max_iter == 3

\* ------------------------------------------------------ program constants

CoefBound == 5      \* line 15, 18, 19: random.randint(-5, 5)
SolBound == 10      \* lines 22, 23: random.randint(-10, 10)

\* --------------------------------------------------------------- values

\* Python's None, a name that is not bound / a key that is not in
\* st.session_state, and the dict of lines 40-47.
None == [kind |-> "None"]
Absent == [kind |-> "absent"]

System(a0, b0, c0, d0, e0, f0, x0, y0) ==
    [kind |-> "system",
     eq1_coeffs |-> <<a0, b0>>, eq1_const |-> c0,
     eq2_coeffs |-> <<d0, e0>>, eq2_const |-> f0,
     solution_x |-> x0, solution_y |-> y0]

\* random.randint(lo, hi): the values the model draws, the two ends of the
\* range and zero.
RandInt(lo, hi) == {v \in lo..hi : v = lo \/ v = hi \/ v = 0}

VARIABLES
    \* generate_equation_system()
    gpc,        \* position in the function
    it,         \* number of iterations of the for loop begun (line 13)
    a, b, d, e, \* the coefficients of the attempt under way
    ret,        \* the value of the last call (Absent until it returns)
    warned,     \* st.warning of line 50 was called in this call
    redrawn,    \* history: the coefficients lines 18, 19 redrew in this attempt
    \* st.session_state
    problem, result, user_x, user_y,
    \* one run of the script
    ui,         \* position in the script
    prob,       \* the script's global prob (line 73), unbound at run start
    outcome     \* how the last finished run ended: "judged" (line 113),
                \* "exception" (uncaught), "rerun" (line 122), "shown" (line 133)

gvars == <<gpc, it, a, b, d, e, ret, warned, redrawn>>
svars == <<problem, result, user_x, user_y>>
rvars == <<ui, prob, outcome>>
vars == <<gpc, it, a, b, d, e, ret, warned, redrawn,
          problem, result, user_x, user_y, ui, prob, outcome>>

\* ------------------------------------------------- generate_equation_system

\* Const with the second product subtracted.
ConstMinus(p, q, x, y) == p * x - q * y

\* Lines 26, 27: c = a * x_sol + b * y_sol, f = d * x_sol + e * y_sol.
Const(p, q, x, y) == p * x + q * y

\* Determinant with the products added.
DeterminantPlus(a0, b0, d0, e0) == a0 * e0 + b0 * d0

\* Determinant as the comment of line 29 writes it, (ad - bd).
DeterminantAsCommented(a0, b0, d0, e0) == a0 * d0 - b0 * d0

\* Line 31: determinant = a * e - b * d.
Determinant(a0, b0, d0, e0) == a0 * e0 - b0 * d0

\* Line 18: the condition of "while a == 0 and b == 0"; line 19 likewise.
Degenerate(p, q) == p = 0 /\ q = 0

\* Line 7: a call; the function's frame is fresh.
Call ==
    /\ gpc = "idle"
    /\ gpc' = "for"
    /\ it' = 0
    /\ a' = 0 /\ b' = 0 /\ d' = 0 /\ e' = 0
    /\ ret' = Absent
    /\ warned' = FALSE
    /\ redrawn' = {}
    /\ UNCHANGED <<svars, rvars>>

\* ForNext with one iteration too many.
ForNextOneMore ==
    /\ gpc = "for"
    /\ it <= max_iter
    /\ it' = it + 1
    /\ a' \in RandInt(-CoefBound, CoefBound)
    /\ b' \in RandInt(-CoefBound, CoefBound)
    /\ d' \in RandInt(-CoefBound, CoefBound)
    /\ e' \in RandInt(-CoefBound, CoefBound)
    /\ gpc' = "whileA"
    /\ redrawn' = {}
    /\ UNCHANGED <<ret, warned>>
    /\ UNCHANGED <<svars, rvars>>

\* Lines 13, 15: the loop begins another attempt and draws a, b, d, e.
ForNext ==
    /\ gpc = "for"
    /\ it < max_iter
    /\ it' = it + 1
    /\ a' \in RandInt(-CoefBound, CoefBound)
    /\ b' \in RandInt(-CoefBound, CoefBound)
    /\ d' \in RandInt(-CoefBound, CoefBound)
    /\ e' \in RandInt(-CoefBound, CoefBound)
    /\ gpc' = "whileA"
    /\ redrawn' = {}
    /\ UNCHANGED <<ret, warned>>
    /\ UNCHANGED <<svars, rvars>>

\* Lines 13, 50, 51: the range is used up; warn and return None.
ForExhausted ==
    /\ gpc = "for"
    /\ it = max_iter
    /\ warned' = TRUE
    /\ ret' = None
    /\ gpc' = "returned"
    /\ UNCHANGED <<it, a, b, d, e, redrawn>>
    /\ UNCHANGED <<svars, rvars>>

\* Line 18: the test of the first repair loop holds; go to its body.
WhileAEnter ==
    /\ gpc = "whileA"
    /\ Degenerate(a, b)
    /\ gpc' = "drawA"
    /\ UNCHANGED <<it, a, b, d, e, ret, warned, redrawn>>
    /\ UNCHANGED <<svars, rvars>>

\* WhileABody drawing from a range one wider at each end.
WhileABodyWide ==
    /\ gpc = "drawA"
    /\ a' \in RandInt(-(CoefBound + 1), CoefBound + 1)
    /\ gpc' = "whileA"
    /\ redrawn' = redrawn \cup {"a"}
    /\ UNCHANGED <<it, b, d, e, ret, warned>>
    /\ UNCHANGED <<svars, rvars>>

\* Line 18: the body, a = random.randint(-5, 5); back to the test.
WhileABody ==
    /\ gpc = "drawA"
    /\ a' \in RandInt(-CoefBound, CoefBound)
    /\ gpc' = "whileA"
    /\ redrawn' = redrawn \cup {"a"}
    /\ UNCHANGED <<it, b, d, e, ret, warned>>
    /\ UNCHANGED <<svars, rvars>>

\* Line 18: the test fails; go on to line 19.
WhileAExit ==
    /\ gpc = "whileA"
    /\ ~Degenerate(a, b)
    /\ gpc' = "whileE"
    /\ UNCHANGED <<it, a, b, d, e, ret, warned, redrawn>>
    /\ UNCHANGED <<svars, rvars>>

\* Line 19: the test of the second repair loop holds; go to its body.
WhileEEnter ==
    /\ gpc = "whileE"
    /\ Degenerate(d, e)
    /\ gpc' = "drawE"
    /\ UNCHANGED <<it, a, b, d, e, ret, warned, redrawn>>
    /\ UNCHANGED <<svars, rvars>>

\* WhileEBody redrawing d, the first coefficient as line 18 does.
WhileEBodyRedrawD ==
    /\ gpc = "drawE"
    /\ d' \in RandInt(-CoefBound, CoefBound)
    /\ gpc' = "whileE"
    /\ redrawn' = redrawn \cup {"d"}
    /\ UNCHANGED <<it, a, b, e, ret, warned>>
    /\ UNCHANGED <<svars, rvars>>

\* Line 19: the body, e = random.randint(-5, 5); back to the test.
WhileEBody ==
    /\ gpc = "drawE"
    /\ e' \in RandInt(-CoefBound, CoefBound)
    /\ gpc' = "whileE"
    /\ redrawn' = redrawn \cup {"e"}
    /\ UNCHANGED <<it, a, b, d, ret, warned>>
    /\ UNCHANGED <<svars, rvars>>

\* WhileEExit testing a and b, the condition of line 18 copied.
WhileEExitTestsAB ==
    /\ gpc = "whileE"
    /\ ~Degenerate(a, b)
    /\ gpc' = "sol"
    /\ UNCHANGED <<it, a, b, d, e, ret, warned, redrawn>>
    /\ UNCHANGED <<svars, rvars>>

\* Line 19: the test fails; go on to line 22.
WhileEExit ==
    /\ gpc = "whileE"
    /\ ~Degenerate(d, e)
    /\ gpc' = "sol"
    /\ UNCHANGED <<it, a, b, d, e, ret, warned, redrawn>>
    /\ UNCHANGED <<svars, rvars>>

\* Solve warning each time it drops an attempt.
SolveWarnOnDrop ==
    /\ gpc = "sol"
    /\ \E x_sol \in RandInt(-SolBound, SolBound),
          y_sol \in RandInt(-SolBound, SolBound) :
         LET c == Const(a, b, x_sol, y_sol)
             f == Const(d, e, x_sol, y_sol)
             determinant == Determinant(a, b, d, e)
         IN  IF determinant # 0
             THEN /\ ret' = System(a, b, c, d, e, f, x_sol, y_sol)
                  /\ gpc' = "returned"
                  /\ redrawn' = redrawn
                  /\ warned' = warned
             ELSE /\ ret' = ret
                  /\ gpc' = "for"
                  /\ redrawn' = {}
                  /\ warned' = TRUE
    /\ a' = 0 /\ b' = 0 /\ d' = 0 /\ e' = 0
    /\ UNCHANGED it
    /\ UNCHANGED <<svars, rvars>>

\* Lines 22-47: draw the solution, compute c and f and the determinant;
\* return the dict when the determinant is not 0, else go round the loop.
\* a, b, d, e are dead once the attempt is over: the model zeroes them.
Solve ==
    /\ gpc = "sol"
    /\ \E x_sol \in RandInt(-SolBound, SolBound),
          y_sol \in RandInt(-SolBound, SolBound) :
         LET c == Const(a, b, x_sol, y_sol)
             f == Const(d, e, x_sol, y_sol)
             determinant == Determinant(a, b, d, e)
         IN  IF determinant # 0
             THEN /\ ret' = System(a, b, c, d, e, f, x_sol, y_sol)
                  /\ gpc' = "returned"
                  /\ redrawn' = redrawn
             ELSE /\ ret' = ret
                  /\ gpc' = "for"
                  /\ redrawn' = {}
    /\ a' = 0 /\ b' = 0 /\ d' = 0 /\ e' = 0
    /\ UNCHANGED <<it, warned>>
    /\ UNCHANGED <<svars, rvars>>

\* Lines 40-47, 51: the caller has the returned value; the frame is gone.
Return ==
    /\ gpc = "returned"
    /\ gpc' = "idle"
    /\ UNCHANGED <<it, a, b, d, e, ret, warned, redrawn>>
    /\ UNCHANGED <<svars, rvars>>

\* The values a call can return: None (line 51), or the dict of lines 40-47
\* for coefficients that left both repair loops (lines 18, 19), any drawn
\* solution, and a determinant that passed line 33.
GenReturns ==
    {None} \cup
    { System(a0, b0, Const(a0, b0, x0, y0), d0, e0, Const(d0, e0, x0, y0), x0, y0) :
        <<a0, b0, d0, e0, x0, y0>> \in
          { t \in RandInt(-CoefBound, CoefBound) \X RandInt(-CoefBound, CoefBound)
                 \X RandInt(-CoefBound, CoefBound) \X RandInt(-CoefBound, CoefBound)
                 \X RandInt(-SolBound, SolBound) \X RandInt(-SolBound, SolBound) :
              /\ ~Degenerate(t[1], t[2])
              /\ ~Degenerate(t[3], t[4])
              /\ Determinant(t[1], t[2], t[3], t[4]) # 0 } }

\* ------------------------------------------------------------ input text

\* The text of an input box is a sequence of characters. The model's texts
\* are written with digits, a sign, a decimal point and the letters a, b, c.
Str(chars) == [kind |-> "str", chars |-> chars]

Digits == {"0", "1", "2", "3", "4", "5", "6", "7", "8", "9"}

DigitVal(ch) ==
    CASE ch = "0" -> 0 [] ch = "1" -> 1 [] ch = "2" -> 2 [] ch = "3" -> 3
      [] ch = "4" -> 4 [] ch = "5" -> 5 [] ch = "6" -> 6 [] ch = "7" -> 7
      [] ch = "8" -> 8 [] ch = "9" -> 9

RECURSIVE IntVal(_)
IntVal(ds) ==
    IF ds = <<>> THEN 0
    ELSE 10 * IntVal(SubSeq(ds, 1, Len(ds) - 1)) + DigitVal(ds[Len(ds)])

\* The text without its leading sign, and whether the sign is a minus.
Unsigned(t) ==
    IF t # <<>> /\ t[1] \in {"-", "+"} THEN SubSeq(t, 2, Len(t)) ELSE t
Negative(t) == t # <<>> /\ t[1] = "-"

PointAt(u) == {i \in 1..Len(u) : u[i] = "."}

\* float(text) of lines 100, 101 raises ValueError unless the text is an
\* optional sign and digits with at most one decimal point, a digit at least.
IsNumber(t) ==
    LET u == Unsigned(t)
    IN  /\ \A i \in 1..Len(u) : u[i] \in Digits \cup {"."}
        /\ Cardinality(PointAt(u)) <= 1
        /\ \E i \in 1..Len(u) : u[i] \in Digits

\* The digits before and after the decimal point.
IntDigits(t) ==
    LET u == Unsigned(t)
    IN  IF PointAt(u) = {} THEN u
        ELSE SubSeq(u, 1, (CHOOSE i \in PointAt(u) : TRUE) - 1)
FracDigits(t) ==
    LET u == Unsigned(t)
    IN  IF PointAt(u) = {} THEN <<>>
        ELSE SubSeq(u, (CHOOSE i \in PointAt(u) : TRUE) + 1, Len(u))

\* The tolerance of line 104 is 1e-9: TolDigits decimal places.
TolDigits == 9

\* The first TolDigits decimals as an integer (in units of 1e-9), and
\* whether any later decimal is not 0.
FracUnits(t) ==
    LET fd == FracDigits(t)
    IN  IntVal([i \in 1..TolDigits |-> IF i <= Len(fd) THEN fd[i] ELSE "0"])
FracRest(t) ==
    LET fd == FracDigits(t)
    IN  \E i \in 1..Len(fd) : i > TolDigits /\ fd[i] # "0"

AllNines == IntVal([i \in 1..TolDigits |-> "9"])

\* Line 104: abs(float(t) - sol) < 1e-9 for an integer sol, in exact
\* arithmetic: float(t) is s * (n + u * 1e-9 + r) with 0 <= r < 1e-9, so it
\* is within 1e-9 of sol when s * n = sol and u = 0, or when it lies just
\* inside sol on the side of zero (s * (n + 1) = sol, u all nines, r > 0).
Within(t, sol) ==
    LET n == IntVal(IntDigits(t))
        s == IF Negative(t) THEN -1 ELSE 1
    IN  \/ s * n = sol /\ FracUnits(t) = 0
        \/ s * (n + 1) = sol /\ FracUnits(t) = AllNines /\ FracRest(t)

\* The texts the user types in the model.
Texts ==
    { <<>>,
      <<"a", "b", "c">>,
      <<"0">>,
      <<"1", "0">>,
      <<"-", "1", "0">>,
      <<"1", "0", ".", "0", "0", "0", "0", "0", "0", "0", "0", "0", "1">> }

\* ------------------------------------------------------------ the script

\* The dict of lines 98, 105, 107, 109.
Result(type, message) == [kind |-> "result", type |-> type, message |-> message]

\* Python truth of st.session_state.problem (line 72): None is false, the
\* dict of lines 40-47 is true.
Truthy(p) == p.kind = "system"

\* Lines 65-89 when a problem is stored: the run skips line 66, binds prob
\* (line 73) and draws the widgets.
RunStored ==
    /\ ui = "idle"
    /\ problem.kind = "system"
    /\ prob' = problem
    /\ ui' = "buttons"
    /\ UNCHANGED <<gvars, svars, outcome>>

\* Lines 65-89 when no problem is stored: the run stores what the generator
\* returns, resets result and the stored texts, and binds prob only if the
\* problem is true (line 72; line 81 shows an error otherwise).
RunInit ==
    /\ ui = "idle"
    /\ problem.kind \in {"absent", "None"}
    /\ \E r \in GenReturns :
         /\ ret' = r
         /\ problem' = r
         /\ prob' = IF Truthy(r) THEN r ELSE Absent
    /\ result' = None
    /\ user_x' = Str(<<>>)
    /\ user_y' = Str(<<>>)
    /\ ui' = "buttons"
    /\ UNCHANGED <<gpc, it, a, b, d, e, warned, redrawn, outcome>>

\* A button reports a press (lines 94, 116) only in a run that follows a
\* run that drew it: never in the first run of a session.
Rendered == outcome # "none"

\* JudgeType with the parse of line 100 before the test of line 97.
JudgeTypeParseFirst(tx, ty, p) ==
    IF ~IsNumber(tx) \/ ~IsNumber(ty) THEN "error"
    ELSE IF p = Absent THEN "NameError"
    ELSE IF Within(tx, p.solution_x) /\ Within(ty, p.solution_y) THEN "success"
    ELSE "error"

\* Lines 97-109: the type of the result for the texts tx and ty and the
\* run's prob p. The name prob is unbound in a run that stored no problem:
\* reading it at line 104 raises NameError, which "except ValueError" does
\* not catch.
JudgeType(tx, ty, p) ==
    IF tx = <<>> \/ ty = <<>> THEN "warning"
    ELSE IF ~IsNumber(tx) \/ ~IsNumber(ty) THEN "error"
    ELSE IF p = Absent THEN "NameError"
    ELSE IF Within(tx, p.solution_x) /\ Within(ty, p.solution_y) THEN "success"
    ELSE "error"

\* Lines 98, 105, 107, 109: the message of the result.
JudgeMessage(tx, ty, p) ==
    IF tx = <<>> \/ ty = <<>> THEN <<"enter both">>
    ELSE IF ~IsNumber(tx) \/ ~IsNumber(ty) THEN <<"enter numbers">>
    ELSE IF p = Absent THEN <<>>
    ELSE IF Within(tx, p.solution_x) /\ Within(ty, p.solution_y)
         THEN <<"correct", p.solution_x, p.solution_y>>
    ELSE <<"incorrect">>

\* Judge judging the texts stored by the press before, not the texts in the
\* boxes.
JudgeStoredTexts(tx, ty) ==
    /\ ui = "buttons"
    /\ Rendered
    /\ IF JudgeType(user_x.chars, user_y.chars, prob) = "NameError"
       THEN /\ outcome' = "exception"
            /\ UNCHANGED <<result, user_x, user_y>>
       ELSE /\ result' = Result(JudgeType(user_x.chars, user_y.chars, prob),
                                JudgeMessage(user_x.chars, user_y.chars, prob))
            /\ user_x' = Str(tx)
            /\ user_y' = Str(ty)
            /\ outcome' = "judged"
    /\ ui' = "idle"
    /\ prob' = Absent
    /\ UNCHANGED <<gvars, problem>>

\* Judge dropping the stored problem once it is solved.
JudgeDropSolved(tx, ty) ==
    /\ ui = "buttons"
    /\ Rendered
    /\ IF JudgeType(tx, ty, prob) = "NameError"
       THEN /\ outcome' = "exception"
            /\ UNCHANGED <<result, user_x, user_y, problem>>
       ELSE /\ result' = Result(JudgeType(tx, ty, prob), JudgeMessage(tx, ty, prob))
            /\ user_x' = Str(tx)
            /\ user_y' = Str(ty)
            /\ outcome' = "judged"
            /\ problem' = IF JudgeType(tx, ty, prob) = "success" THEN None ELSE problem
    /\ ui' = "idle"
    /\ prob' = Absent
    /\ UNCHANGED gvars

\* Lines 94-113 and 125-133: the judge button was pressed with the texts tx
\* and ty in the boxes. An uncaught exception ends the run at once: lines
\* 105-113 are not executed.
Judge(tx, ty) ==
    /\ ui = "buttons"
    /\ Rendered
    /\ IF JudgeType(tx, ty, prob) = "NameError"
       THEN /\ outcome' = "exception"
            /\ UNCHANGED <<result, user_x, user_y>>
       ELSE /\ result' = Result(JudgeType(tx, ty, prob), JudgeMessage(tx, ty, prob))
            /\ user_x' = Str(tx)
            /\ user_y' = Str(ty)
            /\ outcome' = "judged"
    /\ ui' = "idle"
    /\ prob' = Absent
    /\ UNCHANGED <<gvars, problem>>

\* NewProblem without the resets of lines 119-121.
NewProblemKeepResult ==
    /\ ui = "buttons"
    /\ Rendered
    /\ \E r \in GenReturns :
         /\ ret' = r
         /\ problem' = r
    /\ UNCHANGED <<result, user_x, user_y>>
    /\ ui' = "idle"
    /\ prob' = Absent
    /\ outcome' = "rerun"
    /\ UNCHANGED <<gpc, it, a, b, d, e, warned, redrawn>>

\* NewProblem resetting result and the texts only when a system is returned.
NewProblemResetOnSuccess ==
    /\ ui = "buttons"
    /\ Rendered
    /\ \E r \in GenReturns :
         /\ ret' = r
         /\ problem' = r
         /\ IF r = None
            THEN UNCHANGED <<result, user_x, user_y>>
            ELSE /\ result' = None
                 /\ user_x' = Str(<<>>)
                 /\ user_y' = Str(<<>>)
    /\ ui' = "idle"
    /\ prob' = Absent
    /\ outcome' = "rerun"
    /\ UNCHANGED <<gpc, it, a, b, d, e, warned, redrawn>>

\* NewProblem keeping the stored problem when the generator returns None.
NewProblemKeepOnFailure ==
    /\ ui = "buttons"
    /\ Rendered
    /\ \E r \in GenReturns :
         /\ ret' = r
         /\ problem' = IF r = None THEN problem ELSE r
    /\ result' = None
    /\ user_x' = Str(<<>>)
    /\ user_y' = Str(<<>>)
    /\ ui' = "idle"
    /\ prob' = Absent
    /\ outcome' = "rerun"
    /\ UNCHANGED <<gpc, it, a, b, d, e, warned, redrawn>>

\* Lines 116-122: the new-problem button was pressed. The handler stores
\* what the generator returns, resets result and the stored texts, and
\* st.rerun() ends the run.
NewProblem ==
    /\ ui = "buttons"
    /\ Rendered
    /\ \E r \in GenReturns :
         /\ ret' = r
         /\ problem' = r
    /\ result' = None
    /\ user_x' = Str(<<>>)
    /\ user_y' = Str(<<>>)
    /\ ui' = "idle"
    /\ prob' = Absent
    /\ outcome' = "rerun"
    /\ UNCHANGED <<gpc, it, a, b, d, e, warned, redrawn>>

\* Lines 94, 116, 125-133 with no button pressed: the run shows the stored
\* result, if any, and ends.
NoButton ==
    /\ ui = "buttons"
    /\ ui' = "idle"
    /\ prob' = Absent
    /\ outcome' = "shown"
    /\ UNCHANGED <<gvars, svars>>

\* --------------------------------------------------------- specifications

\* A new session: st.session_state is empty, no run and no call is under way.
Init ==
    /\ gpc = "idle" /\ it = 0
    /\ a = 0 /\ b = 0 /\ d = 0 /\ e = 0
    /\ ret = Absent /\ warned = FALSE /\ redrawn = {}
    /\ problem = Absent /\ result = Absent
    /\ user_x = Absent /\ user_y = Absent
    /\ ui = "idle" /\ prob = Absent /\ outcome = "none"

\* The session: runs of the script, one per user interaction.
Next ==
    \/ RunStored
    \/ RunInit
    \/ \E tx \in Texts, ty \in Texts : Judge(tx, ty)
    \/ NewProblem
    \/ NoButton

Spec == Init /\ [][Next]_vars

\* The generator alone.
GenNext ==
    \/ Call
    \/ ForNext
    \/ ForExhausted
    \/ WhileAEnter
    \/ WhileABody
    \/ WhileAExit
    \/ WhileEEnter
    \/ WhileEBody
    \/ WhileEExit
    \/ Solve
    \/ Return

GenSpec == Init /\ [][GenNext]_vars

\* The generator with every statement that can run eventually run.
FairGenSpec ==
    /\ GenSpec
    /\ WF_vars(Call) /\ WF_vars(ForNext) /\ WF_vars(ForExhausted)
    /\ WF_vars(WhileAEnter) /\ WF_vars(WhileABody) /\ WF_vars(WhileAExit)
    /\ WF_vars(WhileEEnter) /\ WF_vars(WhileEBody) /\ WF_vars(WhileEExit)
    /\ WF_vars(Solve) /\ WF_vars(Return)

\* Every value GenSpec returns is in GenReturns, the set Spec draws from.
ReturnsSummarised == gpc = "returned" => ret \in GenReturns

\* ----------------------------------------------------------------- claims

\* The fields of a returned system.
A(p) == p.eq1_coeffs[1]
B(p) == p.eq1_coeffs[2]
D(p) == p.eq2_coeffs[1]
E(p) == p.eq2_coeffs[2]

\* C1 (GenSpec): every system a call returns has a nonzero determinant,
\* a*e - b*d # 0 with (a, b) = eq1_coeffs and (d, e) = eq2_coeffs.
C1_DeterminantNonzero ==
    ret.kind = "system" => A(ret) * E(ret) - B(ret) * D(ret) # 0

\* A call returned a system on a later attempt, after a zero determinant.
C1_Witness == gpc = "returned" /\ ret.kind = "system" /\ it > 1

\* C2 (GenSpec): the stored solution satisfies both stored equations in
\* integer arithmetic, all fields being those of the accepted attempt, also
\* when a or e was redrawn before the constants were computed.
C2_SolutionSatisfies ==
    ret.kind = "system" =>
        /\ A(ret) * ret.solution_x + B(ret) * ret.solution_y = ret.eq1_const
        /\ D(ret) * ret.solution_x + E(ret) * ret.solution_y = ret.eq2_const

\* A call returned a system whose a and e were both redrawn, with a solution
\* that makes both constants nonzero.
C2_Witness ==
    /\ gpc = "returned" /\ ret.kind = "system"
    /\ redrawn = {"a", "e"}
    /\ ret.eq1_const # 0 /\ ret.eq2_const # 0

\* C3 (FairGenSpec): every call returns, whatever is drawn, the repair loops
\* of lines 18 and 19 included.
C3_AlwaysReturns == (gpc = "for") ~> (gpc = "returned")

\* The values x and y are searched in for other solutions of a system.
SearchBound == 12
SearchRange == (-SearchBound)..SearchBound

\* C4 (GenSpec): the stored solution is the only solution of a returned
\* system: every pair (x, y) that satisfies both equations is it.
C4_SolutionUnique ==
    ret.kind = "system" =>
        \A x \in SearchRange, y \in SearchRange :
            ( /\ A(ret) * x + B(ret) * y = ret.eq1_const
              /\ D(ret) * x + E(ret) * y = ret.eq2_const )
            => (x = ret.solution_x /\ y = ret.solution_y)

\* A call returned a system of two equations in both unknowns each.
C4_Witness ==
    /\ gpc = "returned" /\ ret.kind = "system"
    /\ A(ret) # 0 /\ B(ret) # 0 /\ D(ret) # 0 /\ E(ret) # 0
    /\ ret.solution_x # 0 /\ ret.solution_y # 0

\* A step of the new-problem handler (lines 116-122) in which the generator
\* returned None.
NewProblemFailed ==
    ui = "buttons" /\ ui' = "idle" /\ outcome' = "rerun" /\ ret' = None

C6_NoUncaughtException == outcome # "exception"

\* C7 (GenSpec): a call makes max_iter attempts at most; an attempt whose
\* determinant is not zero is returned at once; an attempt whose
\* determinant is zero is dropped and the loop head reached again, which
\* happens in no other way after the call; None is returned only from the
\* loop head with all max_iter attempts made.
C7_RetryCap ==
    [][ /\ it' <= max_iter
        /\ (gpc = "sol" /\ a * e - b * d # 0) =>
               /\ gpc' = "returned"
               /\ ret'.kind = "system"
               /\ ret'.eq1_coeffs = <<a, b>> /\ ret'.eq2_coeffs = <<d, e>>
        /\ (gpc = "sol" /\ a * e - b * d = 0) =>
               /\ gpc' = "for" /\ it' = it
               /\ ret' = Absent
        /\ (gpc' = "for") =>
               \/ gpc = "idle" /\ it' = 0
               \/ gpc = "sol" /\ a * e - b * d = 0
        /\ (gpc = "for" /\ it < max_iter) =>
               /\ gpc' = "whileA" /\ it' = it + 1
               /\ ret' = Absent
        /\ (ret' = None) =>
               \/ ret = None
               \/ gpc = "for" /\ it = max_iter /\ gpc' = "returned"
      ]_vars

\* A call returned None.
C7_Witness == gpc = "returned" /\ ret = None /\ it = max_iter

\* The value of a text of digits and a sign, without decimals.
SignedInt(t) == (IF Negative(t) THEN -1 ELSE 1) * IntVal(IntDigits(t))

\* C8 (Spec): the type of a stored result is fixed by the two stored texts
\* and the stored solution: warning if either text is empty; else error if
\* either is not a number; else success exactly when both are within the
\* tolerance of solution_x and solution_y (for texts without decimals:
\* equal to them), and error otherwise.
C8_JudgeType ==
    result.kind = "result" =>
        LET tx == user_x.chars
            ty == user_y.chars
        IN  IF tx = <<>> \/ ty = <<>> THEN result.type = "warning"
            ELSE IF ~IsNumber(tx) \/ ~IsNumber(ty) THEN result.type = "error"
            ELSE /\ problem.kind = "system"
                 /\ result.type \in {"success", "error"}
                 /\ result.type = "success" <=>
                        /\ Within(tx, problem.solution_x)
                        /\ Within(ty, problem.solution_y)
                 /\ (FracDigits(tx) = <<>> /\ FracDigits(ty) = <<>>) =>
                        (result.type = "success" <=>
                            /\ SignedInt(tx) = problem.solution_x
                            /\ SignedInt(ty) = problem.solution_y)

\* A judged pair of an empty text and a text that is no number.
C8_Witness ==
    /\ result.kind = "result" /\ result.type = "warning"
    /\ user_x.chars = <<>> /\ ~IsNumber(user_y.chars) /\ user_y.chars # <<>>

\* C9 (GenSpec): a returned system has a, b, d, e in -5..5 and solution_x,
\* solution_y in -10..10, redrawn coefficients included.
C9_Ranges ==
    ret.kind = "system" =>
        /\ \A v \in {A(ret), B(ret), D(ret), E(ret)} : v >= -5 /\ v <= 5
        /\ \A v \in {ret.solution_x, ret.solution_y} : v >= -10 /\ v <= 10

\* A call returned a system whose a was redrawn to an end of the range.
C9_Witness ==
    /\ gpc = "returned" /\ ret.kind = "system"
    /\ "a" \in redrawn /\ A(ret) \in {-5, 5}

\* C10 (Spec): a judge press leaves the stored problem as it was, whatever
\* the texts; nothing but result, user_x and user_y changes in the session.
C10_JudgeKeepsProblem ==
    [][(ui = "buttons" /\ ui' = "idle" /\ outcome' \in {"judged", "exception"})
          => problem' = problem]_vars

\* A judge press has just found the answer right.
C10_Witness ==
    /\ ui = "idle" /\ outcome = "judged"
    /\ result.kind = "result" /\ result.type = "success"
    /\ problem.kind = "system"

\* C11 (Spec): judging is idempotent in the type of its result: a judge
\* press with the texts of the press before it, the stored problem being
\* the same, stores a result of the same type as that press did.
C11_JudgeIdempotent ==
    [][( /\ ui = "buttons" /\ ui' = "idle" /\ outcome' = "judged"
         /\ result.kind = "result"
         /\ user_x' = user_x /\ user_y' = user_y )
          => (result'.type = result.type /\ problem' = problem)]_vars

\* A judge press has just found a numeric answer wrong.
C11_Witness ==
    /\ ui = "idle" /\ outcome = "judged"
    /\ result.kind = "result" /\ result.type = "error"
    /\ IsNumber(user_x.chars) /\ IsNumber(user_y.chars)

\* C12 (GenSpec): the generator warns (line 50) in the calls that return
\* None and in no call that returns a system.
C12_WarnsOnFailureOnly ==
    /\ warned <=> ret = None
    /\ ret.kind = "system" => ~warned

\* A call returned None on the last attempt and warned.
C12_Witness == gpc = "returned" /\ warned /\ ret = None

\* C13 (GenSpec): past the repair loops, before the determinant is looked
\* at, not both a and b are zero and not both d and e are zero, in attempts
\* that are returned and in attempts that are dropped; so no returned
\* system has (0, 0) for eq1_coeffs or for eq2_coeffs.
C13_NoZeroEquation ==
    /\ gpc = "sol" => (~(a = 0 /\ b = 0) /\ ~(d = 0 /\ e = 0))
    /\ ret.kind = "system" =>
           (ret.eq1_coeffs # <<0, 0>> /\ ret.eq2_coeffs # <<0, 0>>)

\* An attempt with a redrawn is past the repair loops and will be dropped.
C13_Witness ==
    /\ gpc = "sol" /\ "a" \in redrawn
    /\ a * e - b * d = 0

\* The positions of lines 18 and 19.
InRepair == gpc \in {"whileA", "drawA", "whileE", "drawE"}

\* C14 (GenSpec): the repair redraws one coefficient of each equation: a,
\* and only in the body of line 18, entered only with a = 0 and b = 0; e,
\* and only in the body of line 19, entered only with d = 0 and e = 0. It
\* never changes b or d, and it changes nothing of an equation that was
\* drawn with a nonzero coefficient.
C14_RepairAsymmetric ==
    [][InRepair =>
          /\ b' = b /\ d' = d
          /\ (a' # a \/ "a" \in redrawn' \ redrawn) =>
                 (gpc = "drawA" /\ a = 0 /\ b = 0)
          /\ (e' # e \/ "e" \in redrawn' \ redrawn) =>
                 (gpc = "drawE" /\ d = 0 /\ e = 0)
          /\ gpc' = "drawA" => (a = 0 /\ b = 0)
          /\ gpc' = "drawE" => (d = 0 /\ e = 0)
          /\ redrawn' \subseteq {"a", "e"}
      ]_vars

\* Line 19 has just redrawn e to a nonzero value; d is still 0.
C14_Witness ==
    /\ gpc = "whileE" /\ "e" \in redrawn
    /\ e # 0 /\ d = 0

\* The stored result is a success.
Succeeded == result.kind = "result" /\ result.type = "success"

\* The number a text denotes is the integer sol.
EqualTo(t, sol) ==
    IsNumber(t) /\ SignedInt(t) = sol /\ FracUnits(t) = 0 /\ ~FracRest(t)

\* C15 (Spec), as claimed: whenever the stored result is a success, the
\* stored texts denote numbers equal to solution_x and solution_y of the
\* stored problem.
C15_SuccessMeansEqual ==
    Succeeded =>
        /\ problem.kind = "system"
        /\ EqualTo(user_x.chars, problem.solution_x)
        /\ EqualTo(user_y.chars, problem.solution_y)

\* C15 (Spec), amended: whenever the stored result is a success, a problem
\* is stored and the stored texts denote numbers within the tolerance 1e-9
\* of its solution_x and solution_y; no success outlives the problem it was
\* judged against.
C15_SuccessWithinTolerance ==
    Succeeded =>
        /\ problem.kind = "system"
        /\ IsNumber(user_x.chars) /\ IsNumber(user_y.chars)
        /\ Within(user_x.chars, problem.solution_x)
        /\ Within(user_y.chars, problem.solution_y)

\* A success for a text that is not equal to the solution is still stored
\* after a later run.
C15_Witness ==
    /\ Succeeded /\ ui = "idle" /\ outcome = "shown"
    /\ FracRest(user_x.chars)

\* C16 (Spec): a new-problem press leaves result None and both stored
\* texts empty, whether the generator returned a system or None; so does a
\* run that starts with no problem stored.
C16_ResetTogether ==
    [][( \/ ui = "buttons" /\ ui' = "idle" /\ outcome' = "rerun"
         \/ ui = "idle" /\ ui' = "buttons" /\ problem.kind \in {"absent", "None"} )
          => /\ result' = None
             /\ user_x' = Str(<<>>)
             /\ user_y' = Str(<<>>)
             /\ problem' = ret']_vars

\* A new-problem press has just stored a system.
C16_Witness ==
    /\ ui = "idle" /\ outcome = "rerun" /\ problem.kind = "system"
    /\ result = None /\ user_x = Str(<<>>) /\ user_y = Str(<<>>)

====
